---------------------------- MODULE Spec2Model ----------------------------
(***************************************************************************)
(* BrandPrompt Generator popup: the backend client (generatePrompt and its *)
(* helpers), the settings store (loadSettings / saveSettings) and the App  *)
(* component that wires the two together.                                  *)
(*                                                                         *)
(* A JavaScript string is a sequence of chunks.  A chunk is one character, *)
(* or a run of characters that none of the modelled operations inspects    *)
(* (no whitespace at its ends, no comma, quote, backslash, upper-case      *)
(* letter or trailing slash where the operation looks for one).            *)
(***************************************************************************)
EXTENDS Integers, Sequences, FiniteSets, TLC

VARIABLES
  apiPc,        \* generatePrompt call: "ready" | "awaiting" | "done"
  apiBase,      \* its baseUrl argument
  apiIn,        \* its settings argument
  fetchLog,     \* the requests handed to fetch, in order
  apiRes,       \* the response (or network failure) fetch settled with
  apiOut,       \* how the call settled: pending | returned | threw
  urlIn,        \* a resolveBaseUrl call: its settings argument and window.location
  urlOut,       \* what the call returned, once it has
  chromeMode,   \* chrome.storage.local: "absent" | "working" | "failing"
  localMode,    \* localStorage: "working" | "failing" (its calls throw)
  chromeStore,  \* the value under STORAGE_KEY in chrome.storage.local: {} or {record}
  localStore,   \* the text under STORAGE_KEY in localStorage: {} or {text}
  storeOp,      \* the last loadSettings / saveSettings call and what it did
  lastSaved,    \* the last saveSettings call, kept until the next one
  pageLocation, \* window.location of the popup page
  alive,        \* the App component is mounted
  activeTab,    \* useState: "prompt" | "brand" | "results"
  settings,     \* useState: the in-memory settings record
  dirty,        \* useState: the unsaved indicator
  apiStatus,    \* useState: {state, message}
  generation,   \* useState: {state, prompt, metadata, error}
  publicConfig, \* useState: the backend's public config, or null
  userActions,  \* number of user actions (edits and clicks) so far
  loadTask,     \* the startup load effect: awaiting loadSettings, or done
  prefetch,     \* the config/defaults effect of the current baseUrl
  savesInFlight,\* onSave calls awaiting saveSettings
  checks,       \* onCheckBackend calls awaiting healthCheck, oldest first
  genTasks,     \* onGenerate calls awaiting generatePrompt, oldest first
  copies,       \* onCopyPrompt calls awaiting the clipboard, oldest first
  clipboard,    \* the text on the system clipboard
  lastAction    \* the handler or resumption that ran last, with its input

apiVars == <<apiPc, apiBase, apiIn, fetchLog, apiRes, apiOut, urlIn, urlOut>>
storeVars == <<chromeMode, localMode, chromeStore, localStore, storeOp, lastSaved>>

appVars == <<pageLocation, alive, activeTab, settings, dirty, apiStatus,
             generation, publicConfig, userActions, loadTask, prefetch,
             savesInFlight, checks, genTasks, copies, clipboard,
             lastAction>>

vars == <<apiPc, apiBase, apiIn, fetchLog, apiRes, apiOut, urlIn, urlOut,
          chromeMode, localMode, chromeStore, localStore, storeOp, lastSaved,
          pageLocation, alive, activeTab, settings, dirty, apiStatus,
          generation, publicConfig, userActions, loadTask, prefetch,
          savesInFlight, checks, genTasks, copies, clipboard, lastAction>>

\* The parts of the state a specification does not use
NoOp == [op |-> "none"]
ApiUnused ==
  /\ apiPc = "unused" /\ apiBase = <<>> /\ apiIn = <<>>
  /\ fetchLog = <<>> /\ apiRes = [kind |-> "none"] /\ apiOut = [kind |-> "pending"]
  /\ urlIn = <<>> /\ urlOut = [kind |-> "pending"]
StoreUnused ==
  /\ chromeMode = "absent" /\ localMode = "working"
  /\ chromeStore = {} /\ localStore = {}
  /\ storeOp = NoOp /\ lastSaved = NoOp
AppUnused ==
  /\ pageLocation = <<>> /\ alive = FALSE /\ activeTab = "prompt"
  /\ settings = <<>> /\ dirty = FALSE /\ apiStatus = <<>>
  /\ generation = <<>> /\ publicConfig = <<>> /\ userActions = 0
  /\ loadTask = <<>> /\ prefetch = <<>> /\ savesInFlight = 0
  /\ checks = <<>> /\ genTasks = <<>> /\ copies = <<>> /\ clipboard = <<>>
  /\ lastAction = <<>>

(***************************************************************************)
(* Bounds of the model.                                                    *)
(***************************************************************************)
MaxLen == 2      \* longest free-text input enumerated for the client
MaxKwLen == 3    \* longest keywords input enumerated for the client
MaxEscLen == 1   \* longest stored value enumerated over quote and backslash
MaxUserActions == 2  \* edits and clicks in one run of the App
MaxUrlLen == 4    \* longest backendBaseUrl enumerated for resolveBaseUrl

(***************************************************************************)
(* Strings.                                                                *)
(***************************************************************************)
WhiteSpace == {" ", "\t", "\n"}

RECURSIVE TrimStart(_)
TrimStart(s) ==
  IF s # <<>> /\ Head(s) \in WhiteSpace THEN TrimStart(Tail(s)) ELSE s

RECURSIVE TrimEnd(_)
TrimEnd(s) ==
  IF s # <<>> /\ s[Len(s)] \in WhiteSpace
    THEN TrimEnd(SubSeq(s, 1, Len(s) - 1))
    ELSE s

\* String.prototype.trim
Trim(s) == TrimEnd(TrimStart(s))

UpperCase == <<"A","B","C","D","E","F","G","H","I","J","K","L","M",
               "N","O","P","Q","R","S","T","U","V","W","X","Y","Z">>
LowerCase == <<"a","b","c","d","e","f","g","h","i","j","k","l","m",
               "n","o","p","q","r","s","t","u","v","w","x","y","z">>

LowerChar(c) ==
  IF \E i \in 1..Len(UpperCase) : UpperCase[i] = c
    THEN LowerCase[CHOOSE i \in 1..Len(UpperCase) : UpperCase[i] = c]
    ELSE c

\* String.prototype.toLowerCase
ToLowerCase(s) == [i \in 1..Len(s) |-> LowerChar(s[i])]

\* String.prototype.split(sep) for a one-character separator: the pieces
\* between the separators, empty pieces kept ("".split(",") is [""]).
RECURSIVE SplitFrom(_, _, _)
SplitFrom(s, sep, piece) ==
  IF s = <<>> THEN <<piece>>
  ELSE IF Head(s) = sep THEN <<piece>> \o SplitFrom(Tail(s), sep, <<>>)
  ELSE SplitFrom(Tail(s), sep, Append(piece, Head(s)))

Split(s, sep) == SplitFrom(s, sep, <<>>)

\* JavaScript truthiness of a string
Truthy(s) == s # <<>>

\* All strings over an alphabet up to a length
Strs(alphabet, n) == UNION {[1..k -> alphabet] : k \in 0..n}

(***************************************************************************)
(* JavaScript values that are not strings.                                 *)
(***************************************************************************)
\* null, where a field holds a string or null
Null == <<"<null>">>

\* A decoded JSON value: its type and its content
JString(s) == [t |-> "string", v |-> s]
JNumber(s) == [t |-> "number", v |-> s]
JObject(s) == [t |-> "object", v |-> s]
JNull == [t |-> "null", v |-> <<>>]

(***************************************************************************)
(* A settings record is a function from field names to strings; a field    *)
(* that is not in its domain is undefined.                                 *)
(***************************************************************************)
\* settings?.field?.trim(): the trimmed value, falsy when the field is undefined
TrimmedField(rec, k) ==
  IF k \in DOMAIN rec THEN Trim(rec[k]) ELSE <<>>

\* settings?.field?.trim() || null
TrimmedOrNull(rec, k) ==
  IF Truthy(TrimmedField(rec, k)) THEN TrimmedField(rec, k) ELSE Null

\* mapOrientation comparing the label as typed (no toLowerCase)
mapOrientation_CaseSensitive(uiOrientation) ==
  LET v == uiOrientation IN
  IF v = <<"p","o","s","t">> THEN "post"
  ELSE IF v = <<"a","d">> THEN "ad"
  ELSE IF v = <<"e","m","a","i","l">> THEN "email"
  ELSE IF \/ v = <<"l","a","n","d","i","n","g"," ","p","a","g","e">>
          \/ v = <<"l","a","n","d","i","n","g","_","p","a","g","e">>
    THEN "landing_page"
  ELSE "other"

mapOrientation(uiOrientation) ==
  LET v == ToLowerCase(uiOrientation) IN
  IF v = <<"p","o","s","t">> THEN "post"
  ELSE IF v = <<"a","d">> THEN "ad"
  ELSE IF v = <<"e","m","a","i","l">> THEN "email"
  ELSE IF \/ v = <<"l","a","n","d","i","n","g"," ","p","a","g","e">>
          \/ v = <<"l","a","n","d","i","n","g","_","p","a","g","e">>
    THEN "landing_page"
  ELSE "other"

mapPlatform(uiPlatform) ==
  LET v == ToLowerCase(uiPlatform) IN
  IF v = <<"l","i","n","k","e","d","i","n">> THEN "linkedin"
  ELSE IF \/ v = <<"x"," ","(","t","w","i","t","t","e","r",")">>
          \/ v = <<"x">>
          \/ v = <<"t","w","i","t","t","e","r">>
    THEN "x"
  ELSE IF v = <<"i","n","s","t","a","g","r","a","m">> THEN "instagram"
  ELSE IF v = <<"f","a","c","e","b","o","o","k">> THEN "facebook"
  ELSE IF v = <<"t","i","k","t","o","k">> THEN "tiktok"
  ELSE IF \/ v = <<"g","o","o","g","l","e"," ","a","d","s">>
          \/ v = <<"g","o","o","g","l","e","_","a","d","s">>
    THEN "other"
  ELSE "other"

\* uiOrientation || "" : an undefined field reads as the empty string
FieldOrEmpty(rec, k) == IF k \in DOMAIN rec THEN rec[k] ELSE <<>>

NonEmpty(s) == s # <<>>

\* The keywords list without .filter(Boolean)
KeywordList_NoFilter(rec) ==
  LET pieces == Split(IF "keywords" \in DOMAIN rec
                        THEN rec["keywords"] ELSE <<>>, ",")
  IN [i \in 1..Len(pieces) |-> Trim(pieces[i])]

\* (settings?.keywords || "").split(",").map((s) => s.trim()).filter(Boolean)
KeywordList(rec) ==
  LET pieces == Split(FieldOrEmpty(rec, "keywords"), ",")
      trimmed == [i \in 1..Len(pieces) |-> Trim(pieces[i])]
  IN SelectSeq(trimmed, NonEmpty)

\* settings?.brandDont ? [String(settings.brandDont).trim()].filter(Boolean) : []
AvoidList(rec) ==
  IF Truthy(FieldOrEmpty(rec, "brandDont"))
    THEN SelectSeq(<<Trim(rec["brandDont"])>>, NonEmpty)
    ELSE <<>>

\* settings?.topic?.trim() || settings?.context?.trim()
Brief(rec) ==
  IF Truthy(TrimmedField(rec, "topic"))
    THEN TrimmedField(rec, "topic")
    ELSE TrimmedField(rec, "context")

\* The request body with the tone taken from the Voice field when it is set
RequestBody_ToneFromVoice(rec) ==
  [ orientation |-> mapOrientation(FieldOrEmpty(rec, "orientation")),
    platform |-> mapPlatform(FieldOrEmpty(rec, "platform")),
    brief |-> Brief(rec),
    additional_context |-> TrimmedOrNull(rec, "context"),
    brand |->
      [ brand_name |-> TrimmedField(rec, "brandName"),
        description |-> TrimmedOrNull(rec, "context"),
        target_audience |-> TrimmedOrNull(rec, "audience"),
        voice |->
          [ tone |-> IF Truthy(FieldOrEmpty(rec, "brandVoice"))
                       THEN "custom" ELSE "professional",
            keywords |-> KeywordList(rec),
            avoid |-> AvoidList(rec) ] ],
    style |->
      [ length |-> "medium",
        include_hashtags |-> TRUE,
        emoji_level |-> 0,
        formatting_notes |-> TrimmedOrNull(rec, "brandDo") ] ]

\* The requestBody object of generatePrompt
RequestBody(rec) ==
  [ orientation |-> mapOrientation(FieldOrEmpty(rec, "orientation")),
    platform |-> mapPlatform(FieldOrEmpty(rec, "platform")),
    brief |-> Brief(rec),
    additional_context |-> TrimmedOrNull(rec, "context"),
    brand |->
      [ brand_name |-> TrimmedField(rec, "brandName"),
        description |-> TrimmedOrNull(rec, "context"),
        target_audience |-> TrimmedOrNull(rec, "audience"),
        voice |->
          [ tone |-> "professional",
            keywords |-> KeywordList(rec),
            avoid |-> AvoidList(rec) ] ],
    style |->
      [ length |-> "medium",
        include_hashtags |-> TRUE,
        emoji_level |-> 0,
        formatting_notes |-> TrimmedOrNull(rec, "brandDo") ] ]

BrandNameRequired == <<"Brand name is required to generate a prompt.">>
TopicRequired == <<"Topic (or Context) is required to generate a prompt.">>

\* No validation error
NoError == [message |-> <<>>]

\* The validation testing the brand name without trimming it
ValidationError_NoTrim(rec) ==
  IF ~("brandName" \in DOMAIN rec /\ rec["brandName"] # <<>>)
    THEN [message |-> BrandNameRequired]
  ELSE IF ~Truthy(Brief(rec))
    THEN [message |-> TopicRequired]
  ELSE NoError

\* The error generatePrompt throws before it builds a request, if any
ValidationError(rec) ==
  IF ~Truthy(TrimmedField(rec, "brandName"))
    THEN [message |-> BrandNameRequired]
  ELSE IF ~Truthy(Brief(rec))
    THEN [message |-> TopicRequired]
  ELSE NoError

\* The call generatePrompt makes: fetch(`${baseUrl}/prompts/generate`, {...})
GenerateRequest(baseUrl, rec) ==
  [ url |-> baseUrl \o <<"/prompts/generate">>,
    method |-> "POST",
    body |-> RequestBody(rec) ]

(***************************************************************************)
(* Responses.  fetch resolves with a response (a status, a body stream     *)
(* holding a text, which may fail to read) or rejects with a network       *)
(* error.  The body is a single-use stream: once res.json() has read it,   *)
(* res.text() rejects.                                                     *)
(***************************************************************************)
TextPrompt == <<"{\"prompt\":\"PROMPT\",\"metadata\":{\"orientation\":\"landing_page\"}}">>
TextPromptOnly == <<"{\"prompt\":\" Line 1\\n\"}">>
TextEmptyPrompt == <<"{\"prompt\":\"\",\"metadata\":null}">>
TextNoPrompt == <<"{\"detail\":\"x\"}">>
TextNumberPrompt == <<"{\"prompt\":5}">>
TextNull == <<"null">>
TextPlain == <<"server", " ", "down">>
TextEmpty == <<>>

BodyTexts == {TextPrompt, TextPromptOnly, TextEmptyPrompt, TextNoPrompt,
              TextNumberPrompt, TextNull, TextPlain, TextEmpty}

\* Whether JSON.parse accepts the text, and the object it yields: a function
\* from the member names to decoded values (JSON null has no members).
IsJson(text) == text \notin {TextPlain, TextEmpty}
JsonIsNull(text) == text = TextNull
JsonMembers(text) ==
  CASE text = TextPrompt ->
         [k \in {"prompt", "metadata"} |->
            IF k = "prompt" THEN JString(<<"P","R","O","M","P","T">>)
            ELSE JObject(<<"{\"orientation\":\"landing_page\"}">>)]
    [] text = TextPromptOnly ->
         [k \in {"prompt"} |-> JString(<<" ","L","i","n","e"," ","1","\n">>)]
    [] text = TextEmptyPrompt ->
         [k \in {"prompt", "metadata"} |->
            IF k = "prompt" THEN JString(<<>>) ELSE JNull]
    [] text = TextNoPrompt ->
         [k \in {"detail"} |-> JString(<<"x">>)]
    [] text = TextNumberPrompt ->
         [k \in {"prompt"} |-> JNumber(<<"5">>)]
    [] OTHER -> <<>>

Statuses == {200, 201, 404, 500}

Responses ==
  [kind : {"response"}, status : Statuses, text : BodyTexts, readable : BOOLEAN]

NetworkErrors == {[kind |-> "network", message |-> <<"Failed to fetch">>]}

NoResponse == [kind |-> "none"]

\* Response.ok
ResOk(res) == res.status \in 200..299

\* safeReadBodyText(res), given whether the body stream was already read
safeReadBodyText(res, bodyUsed) ==
  IF res.readable /\ ~bodyUsed THEN res.text ELSE <<>>

\* safeReadJson(res) returned null (a stream or parse failure, or JSON null)
safeReadJsonIsNull(res) ==
  ~res.readable \/ ~IsJson(res.text) \/ JsonIsNull(res.text)

\* safeReadJson(res), when it is not null
safeReadJson(res) == JsonMembers(res.text)

makeHttpError(message, status, bodyText) ==
  [message |-> message, status |-> status, bodyText |-> bodyText]

Returned(value) == [kind |-> "returned", value |-> value]
Threw(error) == [kind |-> "threw", error |-> error]
Pending == [kind |-> "pending"]

\* generatePrompt decoding the body as JSON before it looks at the status
GenerateOnResponse_JsonFirst(res) ==
  IF ~ResOk(res)
    THEN Threw(makeHttpError(
           <<"Generate failed (", ToString(res.status), ")">>,
           res.status, safeReadBodyText(res, TRUE)))
  ELSE IF \/ safeReadJsonIsNull(res)
          \/ "prompt" \notin DOMAIN safeReadJson(res)
          \/ safeReadJson(res)["prompt"].t # "string"
    THEN Threw(makeHttpError(
           <<"Generate response was not valid JSON (or missing prompt)">>,
           res.status, safeReadBodyText(res, TRUE)))
  ELSE Returned(safeReadJson(res))

\* generatePrompt after fetch resolved with res
GenerateOnResponse(res) ==
  IF ~ResOk(res)
    THEN Threw(makeHttpError(
           <<"Generate failed (", ToString(res.status), ")">>,
           res.status, safeReadBodyText(res, FALSE)))
  ELSE IF \/ safeReadJsonIsNull(res)
          \/ "prompt" \notin DOMAIN safeReadJson(res)
          \/ safeReadJson(res)["prompt"].t # "string"
    THEN Threw(makeHttpError(
           <<"Generate response was not valid JSON (or missing prompt)">>,
           res.status, safeReadBodyText(res, TRUE)))
  ELSE Returned(safeReadJson(res))

\* generatePrompt after fetch settled (a network error propagates unchanged)
GenerateOnSettled(res) ==
  IF res.kind = "network"
    THEN Threw([message |-> res.message])
    ELSE GenerateOnResponse(res)

(***************************************************************************)
(* The client alone: one call of generatePrompt on enumerated inputs.      *)
(***************************************************************************)
Acme == <<"A","c","m","e">>
BaseSettings ==
  [ brandName |-> Acme,
    topic |-> <<"H","i">>,
    context |-> <<>>,
    orientation |-> <<"P","o","s","t">>,
    platform |-> <<"L","i","n","k","e","d","I","n">> ]

\* s with field k set to v, or removed when v is Undefined
Undefined == <<"<undefined>">>
WithField(s, k, v) ==
  IF v = Undefined
    THEN [j \in DOMAIN s \ {k} |-> s[j]]
    ELSE [j \in DOMAIN s \cup {k} |-> IF j = k THEN v ELSE s[j]]

Opt(S) == S \cup {Undefined}
FreeTexts == Strs({"a", " "}, MaxLen)
KeywordTexts == Strs({"a", " ", ","}, MaxKwLen)

OrientationLabels ==
  { <<"P","o","s","t">>, <<"A","d">>, <<"E","m","a","i","l">>,
    <<"L","a","n","d","i","n","g"," ","P","a","g","e">>,
    <<"l","a","n","d","i","n","g","_","p","a","g","e">>,
    <<"L","A","N","D","I","N","G"," ","P","A","G","E">>,
    <<"L","a","n","d","i","n","g","P","a","g","e">>,
    <<"P","o","s","t"," ">>, <<"S","t","o","r","y">>, <<>> }

PlatformLabels ==
  { <<"L","i","n","k","e","d","I","n">>,
    <<"X"," ","(","T","w","i","t","t","e","r",")">>,
    <<"X">>, <<"x">>, <<"T","w","i","t","t","e","r">>,
    <<"I","n","s","t","a","g","r","a","m">>,
    <<"F","a","c","e","b","o","o","k">>,
    <<"T","i","k","T","o","k">>,
    <<"G","o","o","g","l","e"," ","A","d","s">>,
    <<"g","o","o","g","l","e","_","a","d","s">>,
    <<"Y","o","u","T","u","b","e">>, <<"B","l","o","g">>,
    <<"X"," ">>, <<>> }

ValidationInputs ==
  { WithField(WithField(WithField(BaseSettings, "brandName", b), "topic", t),
              "context", c) :
      b \in Opt(FreeTexts), t \in Opt(FreeTexts), c \in Opt(FreeTexts) }

VoiceInputs ==
  { WithField(WithField(BaseSettings, "keywords", k), "brandDont", d) :
      k \in Opt(KeywordTexts), d \in Opt(FreeTexts) }

LabelInputs ==
  { WithField(WithField(BaseSettings, "orientation", o), "platform", p) :
      o \in Opt(OrientationLabels), p \in Opt(PlatformLabels) }

NoteInputs ==
  { WithField(WithField(WithField(WithField(WithField(BaseSettings,
      "brandDo", d), "audience", a), "objective", o), "brandVoice", v),
      "backendBaseUrl", u) :
      d \in Opt(FreeTexts), a \in Opt(FreeTexts),
      o \in Opt({<<"Awareness">>}), v \in Opt({<<"Clear">>}),
      u \in Opt({<<"http://x:3001">>}) }

\* The settings of the client's own test of the request mapping
ExampleSettings ==
  [ brandName |-> Acme,
    topic |-> <<"T","o","p","i","c"," ","h","e","r","e">>,
    context |-> <<"E","x","t","r","a"," ","c","o","n","t","e","x","t">>,
    orientation |-> <<"L","a","n","d","i","n","g"," ","P","a","g","e">>,
    platform |-> <<"X"," ","(","T","w","i","t","t","e","r",")">>,
    audience |-> <<"F","o","u","n","d","e","r","s">>,
    brandDont |-> <<"A","v","o","i","d"," ","e","m","o","j","i","s",".">>,
    brandDo |-> <<"D","o"," ","g","u","i","d","a","n","c","e">>,
    keywords |-> <<"o","n","e",","," ","t","w","o">> ]

ApiInputs ==
  ValidationInputs \cup VoiceInputs \cup LabelInputs \cup NoteInputs
    \cup {ExampleSettings}

ApiBaseUrls == {<<"http://api.test">>}

InitApi ==
  /\ apiPc = "ready"
  /\ apiBase \in ApiBaseUrls
  /\ apiIn \in ApiInputs
  /\ fetchLog = <<>>
  /\ apiRes = NoResponse
  /\ apiOut = Pending
  /\ urlIn = <<>>
  /\ urlOut = Pending
  /\ StoreUnused
  /\ AppUnused

\* generatePrompt(baseUrl, settings) up to its first suspension: it throws a
\* validation error, or calls fetch and awaits it
ApiCallRejected ==
  /\ apiPc = "ready"
  /\ ValidationError(apiIn) # NoError
  /\ apiPc' = "done"
  /\ apiOut' = Threw(ValidationError(apiIn))
  /\ UNCHANGED <<apiBase, apiIn, fetchLog, apiRes, urlIn, urlOut>>
  /\ UNCHANGED storeVars
  /\ UNCHANGED appVars

ApiCallFetch ==
  /\ apiPc = "ready"
  /\ ValidationError(apiIn) = NoError
  /\ apiPc' = "awaiting"
  /\ fetchLog' = Append(fetchLog, GenerateRequest(apiBase, apiIn))
  /\ UNCHANGED <<apiBase, apiIn, apiRes, apiOut, urlIn, urlOut>>
  /\ UNCHANGED storeVars
  /\ UNCHANGED appVars

\* fetch settles and generatePrompt runs to its end
ApiSettle ==
  /\ apiPc = "awaiting"
  /\ \E res \in Responses \cup NetworkErrors :
       /\ apiRes' = res
       /\ apiOut' = GenerateOnSettled(res)
  /\ apiPc' = "done"
  /\ UNCHANGED <<apiBase, apiIn, fetchLog, urlIn, urlOut>>
  /\ UNCHANGED storeVars
  /\ UNCHANGED appVars

NextApi == ApiCallRejected \/ ApiCallFetch \/ ApiSettle

SpecApi == InitApi /\ [][NextApi]_vars

(***************************************************************************)
(* The settings store.  chrome.storage.local keeps the record itself;      *)
(* localStorage keeps a text, JSON.stringify(record).  A JSON text is      *)
(* modelled member by member: each member's value is the quoted, escaped   *)
(* string that JSON.stringify writes and JSON.parse reads back.            *)
(***************************************************************************)
EmptyRecord == <<>>

\* An escaping that leaves the backslash alone
EscapeChar_NoBackslash(c) ==
  IF c = "\"" THEN <<"\\", "\"">>
  ELSE IF c = "\n" THEN <<"\\", "n">>
  ELSE IF c = "\t" THEN <<"\\", "t">>
  ELSE <<c>>

\* JSON.stringify of one character of a string
EscapeChar(c) ==
  IF c = "\"" THEN <<"\\", "\"">>
  ELSE IF c = "\\" THEN <<"\\", "\\">>
  ELSE IF c = "\n" THEN <<"\\", "n">>
  ELSE IF c = "\t" THEN <<"\\", "t">>
  ELSE <<c>>

RECURSIVE EscapeChars(_)
EscapeChars(s) ==
  IF s = <<>> THEN <<>> ELSE EscapeChar(Head(s)) \o EscapeChars(Tail(s))

\* JSON.stringify of a string
JsonQuote(s) == <<"\"">> \o EscapeChars(s) \o <<"\"">>

RECURSIVE UnescapeChars(_)
UnescapeChars(s) ==
  IF s = <<>> THEN <<>>
  ELSE IF Head(s) = "\\" /\ Len(s) >= 2
    THEN <<(IF s[2] = "n" THEN "\n" ELSE IF s[2] = "t" THEN "\t" ELSE s[2])>>
           \o UnescapeChars(Tail(Tail(s)))
  ELSE <<Head(s)>> \o UnescapeChars(Tail(s))

\* JSON.parse of a quoted string
JsonUnquote(q) == UnescapeChars(SubSeq(q, 2, Len(q) - 1))

\* JSON.stringify(settings ?? {})
JsonStringify(rec) ==
  [valid |-> TRUE,
   members |-> [k \in DOMAIN rec |-> JsonQuote(rec[k])]]

\* JSON.parse(raw), when raw is valid JSON
JsonParse(raw) == [k \in DOMAIN raw.members |-> JsonUnquote(raw.members[k])]

\* A text in localStorage that JSON.parse rejects
CorruptText == [valid |-> FALSE, members |-> <<>>]

\* chromeApi?.storage?.local
HasChromeStorage(cm) == cm # "absent"

\* await chromeApi.storage.local.get([STORAGE_KEY]); result?.[STORAGE_KEY] ?? {}
ChromeGet(cm, cs) ==
  IF cm = "failing" THEN [threw |-> TRUE, value |-> EmptyRecord]
  ELSE [threw |-> FALSE,
        value |-> IF cs = {} THEN EmptyRecord ELSE CHOOSE r \in cs : TRUE]

\* const raw = localStorage.getItem(STORAGE_KEY); raw ? JSON.parse(raw) : {}
LocalGet(lm, ls) ==
  IF lm = "failing" THEN [threw |-> TRUE, value |-> EmptyRecord]
  ELSE IF ls = {} THEN [threw |-> FALSE, value |-> EmptyRecord]
  ELSE LET raw == CHOOSE t \in ls : TRUE IN
       IF ~raw.valid THEN [threw |-> TRUE, value |-> EmptyRecord]
       ELSE [threw |-> FALSE, value |-> JsonParse(raw)]

\* The extension API's set storing an empty record under the key
ChromeSet_Empty(cm, cs, rec) ==
  IF cm = "failing" THEN [threw |-> TRUE, store |-> cs]
  ELSE [threw |-> FALSE, store |-> {EmptyRecord}]

\* await chromeApi.storage.local.set({ [STORAGE_KEY]: settings })
ChromeSet(cm, cs, rec) ==
  IF cm = "failing" THEN [threw |-> TRUE, store |-> cs]
  ELSE [threw |-> FALSE, store |-> {rec}]

\* localStorage.setItem(STORAGE_KEY, JSON.stringify(settings ?? {}))
LocalSet(lm, ls, rec) ==
  IF lm = "failing" THEN [threw |-> TRUE, store |-> ls]
  ELSE [threw |-> FALSE, store |-> {JsonStringify(rec)}]

\* try { attempt } catch (e) { console.warn(...); handler }
TryCatch(attempt, handler) == IF attempt.threw THEN handler ELSE attempt

\* loadSettings without the catch around the localStorage read
loadSettings_NoCatch(cm, cs, lm, ls) ==
  IF HasChromeStorage(cm) /\ ~ChromeGet(cm, cs).threw
    THEN [raised |-> FALSE, value |-> ChromeGet(cm, cs).value,
          touched |-> {"chrome.get"}]
  ELSE LET r == LocalGet(lm, ls) IN
       [raised |-> r.threw, value |-> r.value,
        touched |-> (IF HasChromeStorage(cm) THEN {"chrome.get"} ELSE {})
                      \cup {"local.get"}]

\* loadSettings(): whether it raised, what it returned, the backends it touched
loadSettings(cm, cs, lm, ls) ==
  IF HasChromeStorage(cm) /\ ~ChromeGet(cm, cs).threw
    THEN [raised |-> FALSE, value |-> ChromeGet(cm, cs).value,
          touched |-> {"chrome.get"}]
  ELSE LET r == TryCatch(LocalGet(lm, ls),
                         [threw |-> FALSE, value |-> EmptyRecord]) IN
       [raised |-> r.threw, value |-> r.value,
        touched |-> (IF HasChromeStorage(cm) THEN {"chrome.get"} ELSE {})
                      \cup {"local.get"}]

\* saveSettings without the return after the extension API's set
saveSettings_NoReturn(cm, cs, lm, ls, rec) ==
  LET c == IF HasChromeStorage(cm) /\ ~ChromeSet(cm, cs, rec).threw
             THEN ChromeSet(cm, cs, rec).store ELSE cs
      r == TryCatch(LocalSet(lm, ls, rec), [threw |-> FALSE, store |-> ls]) IN
  [raised |-> r.threw, chrome |-> c, local |-> r.store,
   touched |-> (IF HasChromeStorage(cm) THEN {"chrome.set"} ELSE {})
                 \cup {"local.set"}]

\* saveSettings(settings): whether it raised, the stores after it, the
\* backends it touched
saveSettings(cm, cs, lm, ls, rec) ==
  IF HasChromeStorage(cm) /\ ~ChromeSet(cm, cs, rec).threw
    THEN [raised |-> FALSE, chrome |-> ChromeSet(cm, cs, rec).store,
          local |-> ls, touched |-> {"chrome.set"}]
  ELSE LET r == TryCatch(LocalSet(lm, ls, rec),
                         [threw |-> FALSE, store |-> ls]) IN
       [raised |-> r.threw, chrome |-> cs, local |-> r.store,
        touched |-> (IF HasChromeStorage(cm) THEN {"chrome.set"} ELSE {})
                      \cup {"local.set"}]

(***************************************************************************)
(* The store alone: calls of saveSettings and loadSettings, one at a time, *)
(* while the backends come and go.                                         *)
(***************************************************************************)
ChromeModes == {"absent", "working", "failing"}
LocalModes == {"working", "failing"}

AcmeRecord == [brandName |-> <<"A","c","m","e">>]
QuotedRecord ==
  [brandName |-> <<"a", "\"", "b">>, topic |-> <<"\\", "n", "\n", "\\">>]

StoreRecords ==
  {[brandName |-> v] : v \in Strs({"a", "\"", "\\"}, MaxEscLen)}
    \cup {EmptyRecord, AcmeRecord, QuotedRecord}

InitStore ==
  /\ ApiUnused
  /\ AppUnused
  /\ chromeMode \in ChromeModes
  /\ localMode \in LocalModes
  /\ chromeStore \in {{}, {AcmeRecord}}
  /\ localStore \in {{}, {JsonStringify(QuotedRecord)}, {CorruptText}}
  /\ storeOp = NoOp
  /\ lastSaved = NoOp

\* Which single backend is active: the extension API present and working,
\* or the extension API absent and localStorage working; "mixed" otherwise
ActiveBackend(cm, lm) ==
  IF cm = "working" THEN "chrome"
  ELSE IF cm = "absent" /\ lm = "working" THEN "local"
  ELSE "mixed"

\* The backend a saveSettings call writes the record to: the extension
\* storage when its set succeeds, else localStorage when setItem succeeds
WrittenBackend(cm, lm) ==
  IF cm = "working" THEN "chrome"
  ELSE IF lm = "working" THEN "local"
  ELSE "none"

StoreSave ==
  \E s \in StoreRecords :
    LET r == saveSettings(chromeMode, chromeStore, localMode, localStore, s) IN
    /\ chromeStore' = r.chrome
    /\ localStore' = r.local
    /\ storeOp' = [op |-> "save", arg |-> s, raised |-> r.raised,
                   touched |-> r.touched,
                   backend |-> ActiveBackend(chromeMode, localMode),
                   wrote |-> WrittenBackend(chromeMode, localMode)]
    /\ lastSaved' = storeOp'
    /\ UNCHANGED <<chromeMode, localMode>>
    /\ UNCHANGED apiVars
    /\ UNCHANGED appVars

StoreLoad ==
  LET r == loadSettings(chromeMode, chromeStore, localMode, localStore) IN
  /\ storeOp' = [op |-> "load", value |-> r.value, raised |-> r.raised,
                 touched |-> r.touched,
                 backend |-> ActiveBackend(chromeMode, localMode)]
  /\ UNCHANGED <<chromeMode, localMode, chromeStore, localStore, lastSaved>>
  /\ UNCHANGED apiVars
  /\ UNCHANGED appVars

\* The extension API appears, disappears or starts failing; localStorage
\* starts or stops throwing (between two calls of the store)
StoreEnvChange ==
  /\ \E cm \in ChromeModes, lm \in LocalModes :
       /\ <<cm, lm>> # <<chromeMode, localMode>>
       /\ chromeMode' = cm
       /\ localMode' = lm
  /\ storeOp' = NoOp
  /\ UNCHANGED <<chromeStore, localStore, lastSaved>>
  /\ UNCHANGED apiVars
  /\ UNCHANGED appVars

NextStore == StoreSave \/ StoreLoad \/ StoreEnvChange

SpecStore == InitStore /\ [][NextStore]_vars

(***************************************************************************)
(* The rest of the client that the App calls.                              *)
(***************************************************************************)
DEFAULT_BASE_URL == <<"http://localhost:3001">>

\* chosen.replace(/\/+$/, "")
RECURSIVE StripTrailingSlashes(_)
StripTrailingSlashes(s) ==
  IF s # <<>> /\ s[Len(s)] = "/"
    THEN StripTrailingSlashes(SubSeq(s, 1, Len(s) - 1))
    ELSE s

\* inferBackendUrlFromWindowLocation(), in a page (window is defined)
inferBackendUrlFromWindowLocation(loc) ==
  IF loc.hostname \in {<<"localhost">>, <<"127.0.0.1">>}
    THEN DEFAULT_BASE_URL
    ELSE loc.protocol \o <<"/", "/">> \o loc.hostname \o <<":", "3001">>

\* resolveBaseUrl removing one trailing slash only
resolveBaseUrl_StripOne(rec, loc) ==
  LET fromSettings == TrimmedField(rec, "backendBaseUrl")
      chosen == IF Truthy(fromSettings) THEN fromSettings
                ELSE inferBackendUrlFromWindowLocation(loc)
  IN IF chosen # <<>> /\ chosen[Len(chosen)] = "/"
       THEN SubSeq(chosen, 1, Len(chosen) - 1)
       ELSE chosen

\* resolveBaseUrl(settings), in a page whose window.location is loc
resolveBaseUrl(rec, loc) ==
  LET fromSettings == TrimmedField(rec, "backendBaseUrl")
      chosen == IF Truthy(fromSettings) THEN fromSettings
                ELSE inferBackendUrlFromWindowLocation(loc)
  IN StripTrailingSlashes(chosen)

(***************************************************************************)
(* resolveBaseUrl alone: one call on an enumerated settings record.        *)
(***************************************************************************)
UrlSettings ==
  {[backendBaseUrl |-> v] : v \in Strs({"h", " ", "/"}, MaxUrlLen)}
    \cup {EmptyRecord}

UrlLocations ==
  { [protocol |-> <<"http:">>, hostname |-> <<"localhost">>],
    [protocol |-> <<"https:">>, hostname |-> <<"preview.example">>] }

InitUrl ==
  /\ apiPc = "unused" /\ apiBase = <<>> /\ apiIn = <<>>
  /\ fetchLog = <<>> /\ apiRes = [kind |-> "none"] /\ apiOut = [kind |-> "pending"]
  /\ urlIn \in [rec : UrlSettings, loc : UrlLocations]
  /\ urlOut = [kind |-> "pending"]
  /\ StoreUnused
  /\ AppUnused

UrlResolve ==
  /\ urlOut.kind = "pending"
  /\ urlOut' = [kind |-> "returned",
                value |-> resolveBaseUrl(urlIn.rec, urlIn.loc)]
  /\ UNCHANGED <<apiPc, apiBase, apiIn, fetchLog, apiRes, apiOut, urlIn>>
  /\ UNCHANGED storeVars
  /\ UNCHANGED appVars

NextUrl == UrlResolve

SpecUrl == InitUrl /\ [][NextUrl]_vars

\* healthCheck throwing for a non-2xx response, as the other calls do
HealthOnSettled_ThrowsOnStatus(res) ==
  IF res.kind = "network"
    THEN Threw([message |-> res.message])
  ELSE IF ~ResOk(res)
    THEN Threw(makeHttpError(<<"Health check failed">>, res.status,
                             safeReadBodyText(res, FALSE)))
  ELSE Returned([ok |-> TRUE, status |-> res.status,
                 bodyText |-> safeReadBodyText(res, FALSE)])

\* healthCheck(baseUrl) after fetch settled: it returns {ok, status,
\* bodyText}, or the network error propagates
HealthOnSettled(res) ==
  IF res.kind = "network"
    THEN Threw([message |-> res.message])
    ELSE Returned([ok |-> ResOk(res), status |-> res.status,
                   bodyText |-> safeReadBodyText(res, FALSE)])

\* getPublicConfig / getDefaultSettings after fetch settled
GetJsonOnSettled(res, failed, invalid) ==
  IF res.kind = "network"
    THEN Threw([message |-> res.message])
  ELSE IF ~ResOk(res)
    THEN Threw(makeHttpError(failed \o <<" (", ToString(res.status), ")">>,
                             res.status, safeReadBodyText(res, FALSE)))
  ELSE IF safeReadJsonIsNull(res)
    THEN Threw(makeHttpError(invalid, res.status, safeReadBodyText(res, TRUE)))
  ELSE Returned(res.text)

ConfigOnSettled(res) ==
  GetJsonOnSettled(res, <<"Failed to load config">>,
                   <<"Config response was not valid JSON">>)

DefaultsOnSettled(res) ==
  GetJsonOnSettled(res, <<"Failed to load defaults">>,
                   <<"Defaults response was not valid JSON">>)

TextConfig == <<"{\"version\":\"0.2.0\"}">>
TextDefaults == <<"{\"brand\":{\"brand_name\":\"Your Brand\"},\"style\":{}}">>
TextDefaultsNoBrand == <<"{\"style\":{}}">>

\* defaults?.brand?.brand_name of a decoded defaults body (falsy when absent)
DefaultBrandName(text) ==
  IF text = TextDefaults
    THEN <<"Y","o","u","r"," ","B","r","a","n","d">>
    ELSE <<>>

(***************************************************************************)
(* The App component.                                                      *)
(***************************************************************************)
TABS == <<"prompt", "brand", "results">>

DEFAULT_SETTINGS ==
  [ backendBaseUrl |-> <<"http://localhost:3001">>,
    orientation |-> <<"P","o","s","t">>,
    platform |-> <<"L","i","n","k","e","d","I","n">>,
    objective |-> <<"Awareness">>,
    audience |-> <<>>,
    topic |-> <<>>,
    context |-> <<>>,
    brandName |-> <<>>,
    brandVoice |-> <<"Clear", ",", " ", "confident", ",", " ", "helpful">>,
    brandDo |-> <<"Use concise sentences. Be specific. Keep it practical.">>,
    brandDont |-> <<"Avoid hype and jargon. Avoid emojis.">>,
    keywords |-> <<>> ]

\* { ...a, ...b }
Spread(a, b) ==
  [k \in DOMAIN a \cup DOMAIN b |-> IF k \in DOMAIN b THEN b[k] ELSE a[k]]

IdleStatus == [state |-> "idle", message |-> <<>>]
IdleGeneration ==
  [state |-> "idle", prompt |-> <<>>, metadata |-> JNull, error |-> <<>>]

\* The view a field's control is rendered in ("sidebar": every view)
FieldView(k) ==
  IF k \in {"backendBaseUrl", "brandName", "brandVoice", "keywords"}
    THEN "sidebar"
  ELSE IF k \in {"brandDo", "brandDont"} THEN "brand"
  ELSE "prompt"

\* Values entered in the model, per field (a select offers its options only)
EditValues(k) ==
  CASE k = "backendBaseUrl" -> {<<"http://x:3001", "/", "/">>, <<" ">>}
    [] k = "orientation" -> {<<"L","a","n","d","i","n","g"," ","P","a","g","e">>}
    [] k = "platform" -> {<<"G","o","o","g","l","e"," ","A","d","s">>}
    [] k = "objective" -> {<<"Conversion">>}
    [] k = "audience" -> {<<"F","o","u","n","d","e","r","s">>}
    [] k = "topic" -> {<<"H","i">>}
    [] k = "context" -> {<<"c","t","x">>}
    [] k = "brandName" -> {Acme, <<>>}
    [] k = "brandVoice" -> {<<"Bold">>}
    [] k = "brandDo" -> {<<"D","o">>}
    [] k = "brandDont" -> {<<>>}
    [] k = "keywords" -> {<<"o","n","e",","," ","t","w","o">>}

EditableFields == DOMAIN DEFAULT_SETTINGS

\* The baseUrl memo: resolveBaseUrl(settings)
BaseUrlOf(rec) == resolveBaseUrl(rec, pageLocation)

\* The config/defaults effect after a render with settings next: it runs
\* again (the old run's mounted flag cleared) when baseUrl changed
PrefetchAfter(next) ==
  IF BaseUrlOf(next) # BaseUrlOf(settings)
    THEN [pc |-> "config", url |-> BaseUrlOf(next)]
    ELSE prefetch

(* Environment of the App *)
StoredBrand ==
  [ brandName |-> <<"S","t","o","r","e","d"," ","B","r","a","n","d">>,
    topic |-> <<"S","t","o","r","e","d"," ","T","o","p","i","c">> ]
StoredLegacy ==
  [ backendBaseUrl |-> <<"http://x:3001", "/">>,
    brandName |-> <<" ">>,
    legacyField |-> <<"1">> ]

\* The storage the popup starts with
AppEnvironments ==
  { [chromeMode |-> "working", localMode |-> "working",
     chromeStore |-> {StoredBrand}, localStore |-> {}],
    [chromeMode |-> "absent", localMode |-> "working",
     chromeStore |-> {}, localStore |-> {JsonStringify(StoredLegacy)}],
    [chromeMode |-> "failing", localMode |-> "working",
     chromeStore |-> {}, localStore |-> {}],
    [chromeMode |-> "absent", localMode |-> "failing",
     chromeStore |-> {}, localStore |-> {JsonStringify(StoredLegacy)}] }

PageLocations ==
  { [protocol |-> <<"https:">>, hostname |-> <<"preview.example">>] }

AppResponses ==
  { [kind |-> "response", status |-> 200, text |-> TextPrompt, readable |-> TRUE],
    [kind |-> "response", status |-> 200, text |-> TextPromptOnly, readable |-> TRUE],
    [kind |-> "response", status |-> 200, text |-> TextNoPrompt, readable |-> TRUE],
    [kind |-> "response", status |-> 500, text |-> TextPlain, readable |-> TRUE],
    [kind |-> "response", status |-> 404, text |-> TextEmpty, readable |-> TRUE] }
    \cup NetworkErrors

ConfigResponses ==
  { [kind |-> "response", status |-> 200, text |-> TextConfig, readable |-> TRUE],
    [kind |-> "response", status |-> 500, text |-> TextPlain, readable |-> TRUE] }

DefaultsResponses ==
  { [kind |-> "response", status |-> 200, text |-> TextDefaults, readable |-> TRUE],
    [kind |-> "response", status |-> 200, text |-> TextDefaultsNoBrand, readable |-> TRUE] }
    \cup NetworkErrors

HealthResponses ==
  { [kind |-> "response", status |-> 200, text |-> TextEmpty, readable |-> TRUE],
    [kind |-> "response", status |-> 500, text |-> TextPlain, readable |-> TRUE] }
    \cup NetworkErrors

\* The state after the first render and its effects: the load effect awaits
\* loadSettings(), the config/defaults effect awaits getPublicConfig(baseUrl)
Init ==
  /\ ApiUnused
  /\ \E env \in AppEnvironments :
       /\ chromeMode = env.chromeMode
       /\ localMode = env.localMode
       /\ chromeStore = env.chromeStore
       /\ localStore = env.localStore
  /\ storeOp = NoOp
  /\ lastSaved = NoOp
  /\ pageLocation \in PageLocations
  /\ alive = TRUE
  /\ activeTab = "prompt"
  /\ settings = DEFAULT_SETTINGS
  /\ dirty = FALSE
  /\ apiStatus = IdleStatus
  /\ generation = IdleGeneration
  /\ publicConfig = Null
  /\ userActions = 0
  /\ loadTask = [pc |-> "awaiting",
                 stored |-> loadSettings(chromeMode, chromeStore,
                                         localMode, localStore).value]
  /\ prefetch = [pc |-> "config",
                 url |-> resolveBaseUrl(DEFAULT_SETTINGS, pageLocation)]
  /\ savesInFlight = 0
  /\ checks = <<>>
  /\ genTasks = <<>>
  /\ copies = <<>>
  /\ clipboard = <<>>
  /\ lastAction = [type |-> "mount"]

\* The load effect's merge with the persisted record put first
MergedSettings_DefaultsWin(stored) == Spread(stored, DEFAULT_SETTINGS)

\* const merged = { ...DEFAULT_SETTINGS, ...stored }
MergedSettings(stored) == Spread(DEFAULT_SETTINGS, stored)

\* The load effect resumes after await loadSettings()
LoadSettled ==
  /\ loadTask.pc = "awaiting"
  /\ loadTask' = [pc |-> "done"]
  /\ IF alive
       THEN LET merged == MergedSettings(loadTask.stored) IN
            /\ settings' = merged
            /\ dirty' = FALSE
            /\ prefetch' = PrefetchAfter(merged)
       ELSE UNCHANGED <<settings, dirty, prefetch>>
  /\ UNCHANGED <<pageLocation, alive, activeTab, apiStatus, generation,
                 publicConfig, userActions, savesInFlight, checks, genTasks,
                 copies, clipboard>>
  /\ lastAction' = [type |-> "loadSettled", stored |-> loadTask.stored, mounted |-> alive]
  /\ UNCHANGED apiVars
  /\ UNCHANGED storeVars

\* The config/defaults effect resumes after await getPublicConfig(baseUrl)
\* and goes on to getDefaultSettings(baseUrl)
ConfigSettled ==
  /\ prefetch.pc = "config"
  /\ \E res \in ConfigResponses :
       LET out == ConfigOnSettled(res) IN
       /\ lastAction' = [type |-> "configSettled", res |-> res, mounted |-> alive]
       /\ IF alive
            THEN /\ publicConfig' = IF out.kind = "returned" THEN out.value ELSE Null
                 /\ prefetch' = [prefetch EXCEPT !.pc = "defaults"]
            ELSE /\ prefetch' = [prefetch EXCEPT !.pc = "done"]
                 /\ UNCHANGED publicConfig
  /\ UNCHANGED <<pageLocation, alive, activeTab, settings, dirty, apiStatus,
                 generation, userActions, loadTask, savesInFlight, checks, genTasks,
                 copies, clipboard>>
  /\ UNCHANGED apiVars
  /\ UNCHANGED storeVars

\* The prefill taking the backend's brand name whatever the field holds
Prefill_Always(rec, defaultBrandName) ==
  Spread(rec, [brandName |-> defaultBrandName])

\* setSettings((s) => ({...s, brandName: s.brandName?.trim() ? s.brandName
\*                                                          : defaultBrandName}))
Prefill(rec, defaultBrandName) ==
  Spread(rec, [brandName |-> IF Truthy(TrimmedField(rec, "brandName"))
                               THEN rec["brandName"]
                               ELSE defaultBrandName])

\* The config/defaults effect resumes after await getDefaultSettings(baseUrl)
DefaultsSettled ==
  /\ prefetch.pc = "defaults"
  /\ \E res \in DefaultsResponses :
       LET out == DefaultsOnSettled(res) IN
       /\ lastAction' = [type |-> "defaultsSettled", res |-> res, mounted |-> alive]
       /\ IF alive /\ out.kind = "returned" /\ Truthy(DefaultBrandName(out.value))
         THEN /\ settings' = Prefill(settings, DefaultBrandName(out.value))
              /\ prefetch' =
                   IF BaseUrlOf(settings') # BaseUrlOf(settings)
                     THEN [pc |-> "config", url |-> BaseUrlOf(settings')]
                     ELSE [prefetch EXCEPT !.pc = "done"]
         ELSE /\ prefetch' = [prefetch EXCEPT !.pc = "done"]
              /\ UNCHANGED settings
  /\ UNCHANGED <<pageLocation, alive, activeTab, dirty, apiStatus,
                 generation, publicConfig, userActions, loadTask, savesInFlight,
                 checks, genTasks, copies, clipboard>>
  /\ UNCHANGED apiVars
  /\ UNCHANGED storeVars

\* patchSettings dropping the patch
patchSettings_NoPatch(rec, patch) == rec

\* A field's onChange: patchSettings({ [k]: v })
patchSettings(rec, patch) == Spread(rec, patch)

EditField ==
  /\ alive
  /\ userActions < MaxUserActions
  /\ \E k \in EditableFields :
       /\ FieldView(k) \in {"sidebar", activeTab}
       /\ \E v \in EditValues(k) :
            /\ settings' = patchSettings(settings, [j \in {k} |-> v])
            /\ dirty' = TRUE
            /\ lastAction' = [type |-> "edit", field |-> k, value |-> v]
            /\ prefetch' = PrefetchAfter(settings')
  /\ userActions' = userActions + 1
  /\ UNCHANGED <<pageLocation, alive, activeTab, apiStatus, generation,
                 publicConfig, loadTask, savesInFlight, checks, genTasks,
                 copies, clipboard>>
  /\ UNCHANGED apiVars
  /\ UNCHANGED storeVars

\* A tab button's or a 'View results' button's onClick
SelectTab ==
  /\ alive
  /\ userActions < MaxUserActions
  /\ userActions' = userActions + 1
  /\ \E i \in 1..Len(TABS) :
       /\ TABS[i] # activeTab
       /\ activeTab' = TABS[i]
       /\ lastAction' = [type |-> "selectTab", tab |-> TABS[i]]
  /\ UNCHANGED <<pageLocation, alive, settings, dirty, apiStatus, generation,
                 publicConfig, loadTask, prefetch, savesInFlight,
                 checks, genTasks, copies, clipboard>>
  /\ UNCHANGED apiVars
  /\ UNCHANGED storeVars

\* onSave up to its await: saveSettings(settings) is called (a Save button
\* is disabled unless dirty)
SaveClicked ==
  /\ alive
  /\ userActions < MaxUserActions
  /\ userActions' = userActions + 1
  /\ dirty
  /\ LET r == saveSettings(chromeMode, chromeStore, localMode, localStore,
                           settings) IN
     /\ chromeStore' = r.chrome
     /\ localStore' = r.local
     /\ storeOp' = [op |-> "save", arg |-> settings, raised |-> r.raised,
                    touched |-> r.touched,
                    backend |-> ActiveBackend(chromeMode, localMode),
                    wrote |-> WrittenBackend(chromeMode, localMode)]
     /\ lastSaved' = storeOp'
  /\ savesInFlight' = savesInFlight + 1
  /\ UNCHANGED <<chromeMode, localMode>>
  /\ UNCHANGED <<pageLocation, alive, activeTab, settings, dirty, apiStatus,
                 generation, publicConfig, loadTask, prefetch, checks,
                 genTasks, copies, clipboard>>
  /\ lastAction' = [type |-> "saveClicked"]
  /\ UNCHANGED apiVars

\* onSave resumes after await saveSettings(settings): setDirty(false)
SaveSettled ==
  /\ savesInFlight > 0
  /\ savesInFlight' = savesInFlight - 1
  /\ dirty' = FALSE
  /\ UNCHANGED <<pageLocation, alive, activeTab, settings, apiStatus,
                 generation, publicConfig, userActions, loadTask, prefetch, checks,
                 genTasks, copies, clipboard>>
  /\ lastAction' = [type |-> "saveSettled"]
  /\ UNCHANGED apiVars
  /\ UNCHANGED storeVars

\* Generate and Regenerate buttons that are never disabled
GenerateDisabled_Never(gen) == FALSE

\* disabled={generation.state === "generating"}, on every button whose
\* onClick is onGenerate
GenerateDisabled(gen) == gen.state = "generating"

\* The generatePrompt(baseUrl, rec) call of onGenerate up to its await: it
\* validates, then calls fetch
GenerateCall(rec) ==
  IF ValidationError(rec) # NoError
    THEN [pc |-> "rejected", error |-> ValidationError(rec)]
    ELSE [pc |-> "awaiting",
          request |-> GenerateRequest(BaseUrlOf(rec), rec)]

\* onGenerate up to its await: the state goes to generating and
\* generatePrompt(baseUrl, settings) is called
GenerateClicked ==
  /\ alive
  /\ userActions < MaxUserActions
  /\ userActions' = userActions + 1
  /\ ~GenerateDisabled(generation)
  /\ generation' = [state |-> "generating", prompt |-> <<>>,
                    metadata |-> JNull, error |-> <<>>]
  /\ genTasks' = Append(genTasks, GenerateCall(settings))
  /\ UNCHANGED <<pageLocation, alive, activeTab, settings, dirty, apiStatus,
                 publicConfig, loadTask, prefetch, savesInFlight,
                 checks, copies, clipboard>>
  /\ lastAction' = [type |-> "generateClicked"]
  /\ UNCHANGED apiVars
  /\ UNCHANGED storeVars

\* onGenerate storing the error message without the body text
ErrorText_MessageOnly(e) == e.message

\* e?.bodyText ? `${e.message}\n\n${e.bodyText}` : e?.message ?? String(e)
ErrorText(e) ==
  IF "bodyText" \in DOMAIN e /\ Truthy(e.bodyText)
    THEN e.message \o <<"\n", "\n">> \o e.bodyText
    ELSE e.message

\* res.metadata ?? null
MetadataOf(json) ==
  IF "metadata" \in DOMAIN json THEN json["metadata"] ELSE JNull

\* onGenerate without its catch branch: a call that threw leaves the state
\* at generating
GenerationAfter_NoCatch(out) ==
  IF out.kind = "returned"
    THEN [state |-> "ok", prompt |-> out.value["prompt"].v,
          metadata |-> MetadataOf(out.value), error |-> <<>>]
    ELSE [state |-> "generating", prompt |-> <<>>, metadata |-> JNull,
          error |-> <<>>]

\* onGenerate storing the returned prompt trimmed
GenerationAfter_TrimmedPrompt(out) ==
  IF out.kind = "returned"
    THEN [state |-> "ok", prompt |-> Trim(out.value["prompt"].v),
          metadata |-> MetadataOf(out.value), error |-> <<>>]
    ELSE [state |-> "err", prompt |-> <<>>, metadata |-> JNull,
          error |-> ErrorText(out.error)]

\* The generation state onGenerate sets once generatePrompt has settled
GenerationAfter(out) ==
  IF out.kind = "returned"
    THEN [state |-> "ok", prompt |-> out.value["prompt"].v,
          metadata |-> MetadataOf(out.value), error |-> <<>>]
    ELSE [state |-> "err", prompt |-> <<>>, metadata |-> JNull,
          error |-> ErrorText(out.error)]

\* Some onGenerate call resumes after await generatePrompt(baseUrl, settings)
GenerateSettled ==
  /\ \E i \in 1..Len(genTasks) :
       LET task == genTasks[i] IN
       /\ \E res \in AppResponses :
            LET out == IF task.pc = "rejected"
                         THEN Threw(task.error)
                         ELSE GenerateOnSettled(res) IN
            /\ generation' = GenerationAfter(out)
            /\ lastAction' = [type |-> "generateSettled", tab |-> activeTab,
                               res |-> IF task.pc = "rejected" THEN NoResponse ELSE res,
                               out |-> out]
       /\ genTasks' = [j \in 1..(Len(genTasks) - 1) |->
                         IF j < i THEN genTasks[j] ELSE genTasks[j + 1]]
  /\ activeTab' = "results"
  /\ UNCHANGED <<pageLocation, alive, settings, dirty, apiStatus,
                 publicConfig, userActions, loadTask, prefetch, savesInFlight,
                 checks, copies, clipboard>>
  /\ UNCHANGED apiVars
  /\ UNCHANGED storeVars

\* The badge rendered for apiStatus
statusBadge(status) ==
  IF status.state = "ok" THEN "Connected"
  ELSE IF status.state = "err" THEN "Disconnected"
  ELSE "Not checked"

\* onCheckBackend up to its await: healthCheck(baseUrl) is called
CheckClicked ==
  /\ alive
  /\ userActions < MaxUserActions
  /\ userActions' = userActions + 1
  /\ apiStatus' = [state |-> "checking",
                   message |-> <<"Checking ">> \o BaseUrlOf(settings) \o <<"...">>]
  /\ checks' = Append(checks, BaseUrlOf(settings))
  /\ UNCHANGED <<pageLocation, alive, activeTab, settings, dirty, generation,
                 publicConfig, loadTask, prefetch, savesInFlight,
                 genTasks, copies, clipboard>>
  /\ lastAction' = [type |-> "checkClicked"]
  /\ UNCHANGED apiVars
  /\ UNCHANGED storeVars

\* The status onCheckBackend sets once healthCheck has settled
StatusAfterCheck(out) ==
  IF out.kind = "returned"
    THEN IF out.value.ok
           THEN [state |-> "ok",
                 message |-> <<"Backend OK (", ToString(out.value.status), ")">>]
           ELSE [state |-> "err",
                 message |-> <<"Backend error (", ToString(out.value.status), ")">>]
    ELSE [state |-> "err",
          message |-> <<"Failed to reach backend: ">> \o out.error.message]

\* Some onCheckBackend call resumes after await healthCheck(baseUrl)
CheckSettled ==
  /\ \E i \in 1..Len(checks) :
       /\ \E res \in HealthResponses :
            /\ apiStatus' = StatusAfterCheck(HealthOnSettled(res))
            /\ lastAction' = [type |-> "checkSettled", index |-> i, res |-> res]
       /\ checks' = [j \in 1..(Len(checks) - 1) |->
                       IF j < i THEN checks[j] ELSE checks[j + 1]]
  /\ UNCHANGED <<pageLocation, alive, activeTab, settings, dirty, generation,
                 publicConfig, userActions, loadTask, prefetch, savesInFlight,
                 genTasks, copies, clipboard>>
  /\ UNCHANGED apiVars
  /\ UNCHANGED storeVars

\* onCopyPrompt handing the prompt trimmed to the clipboard
CopiedText_Trimmed(gen) == Trim(gen.prompt)

\* The argument of navigator.clipboard.writeText
CopiedText(gen) == gen.prompt

\* onCopyPrompt up to its await (the Copy button is rendered in the results
\* view of a successful generation and disabled without a prompt; without a
\* prompt the handler returns)
CopyClicked ==
  /\ alive
  /\ userActions < MaxUserActions
  /\ userActions' = userActions + 1
  /\ activeTab = "results"
  /\ generation.state = "ok"
  /\ Truthy(generation.prompt)
  /\ copies' = Append(copies, CopiedText(generation))
  /\ UNCHANGED <<pageLocation, alive, activeTab, settings, dirty, apiStatus,
                 generation, publicConfig, loadTask, prefetch,
                 savesInFlight, checks, genTasks, clipboard>>
  /\ lastAction' = [type |-> "copyClicked"]
  /\ UNCHANGED apiVars
  /\ UNCHANGED storeVars

\* onCopyPrompt resumes after await navigator.clipboard.writeText(prompt)
CopySettled ==
  /\ copies # <<>>
  /\ \/ /\ clipboard' = Head(copies)
        /\ lastAction' = [type |-> "copySettled", ok |-> TRUE]
        /\ apiStatus' = [state |-> "ok",
                         message |-> <<"Copied prompt to clipboard.">>]
     \/ /\ UNCHANGED clipboard
        /\ lastAction' = [type |-> "copySettled", ok |-> FALSE]
        /\ apiStatus' = [state |-> "err",
                         message |-> <<"Copy failed: ", "NotAllowedError">>]
  /\ copies' = Tail(copies)
  /\ UNCHANGED <<pageLocation, alive, activeTab, settings, dirty, generation,
                 publicConfig, userActions, loadTask, prefetch, savesInFlight,
                 checks, genTasks>>
  /\ UNCHANGED apiVars
  /\ UNCHANGED storeVars

\* The popup closes: the component unmounts and both effects' cleanups run
Unmount ==
  /\ alive
  /\ alive' = FALSE
  /\ UNCHANGED <<pageLocation, activeTab, settings, dirty, apiStatus,
                 generation, publicConfig, userActions, loadTask, prefetch,
                 savesInFlight, checks, genTasks, copies, clipboard>>
  /\ lastAction' = [type |-> "unmount"]
  /\ UNCHANGED apiVars
  /\ UNCHANGED storeVars

Next ==
  \/ LoadSettled \/ ConfigSettled \/ DefaultsSettled
  \/ EditField \/ SelectTab
  \/ SaveClicked \/ SaveSettled
  \/ GenerateClicked \/ GenerateSettled
  \/ CheckClicked \/ CheckSettled
  \/ CopyClicked \/ CopySettled
  \/ Unmount

Spec == Init /\ [][Next]_vars

(***************************************************************************)
(* Properties of the client (checked under SpecApi).                       *)
(***************************************************************************)
\* A field that is missing or holds only whitespace
IsBlank(rec, k) ==
  k \notin DOMAIN rec
    \/ \A i \in 1..Len(rec[k]) : rec[k][i] \in WhiteSpace

\* t is s without its leading and trailing whitespace
IsTrimOf(t, s) ==
  /\ t = <<>> \/ (t[1] \notin WhiteSpace /\ t[Len(t)] \notin WhiteSpace)
  /\ \E i \in 0..Len(s) :
       /\ i + Len(t) <= Len(s)
       /\ \A j \in 1..Len(s) :
            IF j > i /\ j <= i + Len(t)
              THEN s[j] = t[j - i]
              ELSE s[j] \in WhiteSpace

\* C1: generatePrompt issues no HTTP request when validation fails: a
\* missing or blank brandName rejects with the brand-name message whatever
\* topic and context are; otherwise a missing or blank topic and context
\* reject with the 'Topic ... required' message; fetch is never invoked.
C1_ValidationBeforeFetch ==
  /\ IsBlank(apiIn, "brandName") =>
       /\ fetchLog = <<>>
       /\ apiPc # "awaiting"
       /\ apiPc = "done" =>
            apiOut = [kind |-> "threw", error |->
              [message |-> <<"Brand name is required to generate a prompt.">>]]
  /\ (~IsBlank(apiIn, "brandName")
        /\ IsBlank(apiIn, "topic") /\ IsBlank(apiIn, "context")) =>
       /\ fetchLog = <<>>
       /\ apiPc # "awaiting"
       /\ apiPc = "done" =>
            apiOut = [kind |-> "threw", error |->
              [message |-> <<"Topic (or Context) is required to generate a prompt.">>]]

\* C1 witness: the call has rejected a record with a blank brand name and a
\* usable topic
C1_Witness ==
  /\ apiPc = "done"
  /\ "brandName" \in DOMAIN apiIn /\ apiIn["brandName"] = <<" ", " ">>
  /\ ~IsBlank(apiIn, "topic")
  /\ apiOut.kind = "threw"

\* C3: a non-2xx answer makes generatePrompt reject with an error whose
\* status is the response status and whose bodyText is the raw body text
\* (the empty text when the body stream cannot be read); exactly one request
\* was sent.
C3_HttpErrorCarriesStatusAndBody ==
  (apiPc = "done" /\ apiRes.kind = "response"
     /\ (apiRes.status < 200 \/ apiRes.status > 299)) =>
    /\ apiOut.kind = "threw"
    /\ DOMAIN apiOut.error = {"message", "status", "bodyText"}
    /\ apiOut.error.status = apiRes.status
    /\ apiOut.error.bodyText = (IF apiRes.readable THEN apiRes.text ELSE <<>>)
    /\ Len(fetchLog) = 1

\* C3 witness: the call has rejected on status 500 with body "server down"
C3_Witness ==
  /\ apiPc = "done"
  /\ apiRes = [kind |-> "response", status |-> 500,
               text |-> <<"server", " ", "down">>, readable |-> TRUE]
  /\ apiOut.kind = "threw"
  /\ apiOut.error.bodyText = <<"server", " ", "down">>

\* The lookup tables of the labels enumerated, written out
OrientationTable(label) ==
  CASE label \in {<<"P","o","s","t">>} -> "post"
    [] label \in {<<"A","d">>} -> "ad"
    [] label \in {<<"E","m","a","i","l">>} -> "email"
    [] label \in {<<"L","a","n","d","i","n","g"," ","P","a","g","e">>,
                  <<"l","a","n","d","i","n","g","_","p","a","g","e">>,
                  <<"L","A","N","D","I","N","G"," ","P","A","G","E">>}
         -> "landing_page"
    [] OTHER -> "other"

PlatformTable(label) ==
  CASE label \in {<<"L","i","n","k","e","d","I","n">>} -> "linkedin"
    [] label \in {<<"X"," ","(","T","w","i","t","t","e","r",")">>,
                  <<"X">>, <<"x">>, <<"T","w","i","t","t","e","r">>} -> "x"
    [] label \in {<<"I","n","s","t","a","g","r","a","m">>} -> "instagram"
    [] label \in {<<"F","a","c","e","b","o","o","k">>} -> "facebook"
    [] label \in {<<"T","i","k","T","o","k">>} -> "tiktok"
    [] OTHER -> "other"

LabelOf(rec, k) == IF k \in DOMAIN rec THEN rec[k] ELSE <<>>

\* C4: the posted orientation and platform are the values of the fixed
\* case-insensitive lookup tables, every other label (Google Ads, a missing
\* label) giving other; both are always values of the backend's enums.
C4_LabelsMappedByTable ==
  \A i \in 1..Len(fetchLog) :
    /\ fetchLog[i].body.orientation = OrientationTable(LabelOf(apiIn, "orientation"))
    /\ fetchLog[i].body.platform = PlatformTable(LabelOf(apiIn, "platform"))
    /\ fetchLog[i].body.orientation \in
         {"post", "ad", "email", "landing_page", "other"}
    /\ fetchLog[i].body.platform \in
         {"instagram", "tiktok", "facebook", "linkedin", "x", "youtube",
          "blog", "website", "other"}

\* C4 witness: a request was posted for 'LANDING PAGE' on 'Google Ads'
C4_Witness ==
  /\ Len(fetchLog) = 1
  /\ LabelOf(apiIn, "orientation") = <<"L","A","N","D","I","N","G"," ","P","A","G","E">>
  /\ LabelOf(apiIn, "platform") = <<"G","o","o","g","l","e"," ","A","d","s">>
  /\ fetchLog[1].body.orientation = "landing_page"
  /\ fetchLog[1].body.platform = "other"

\* The comma-separated tokens of s, by the positions of its commas
CommaPositions(s) == {i \in 1..Len(s) : s[i] = ","}
TokenStart(s, n) ==
  IF n = 1 THEN 1
  ELSE 1 + CHOOSE i \in CommaPositions(s) :
             Cardinality({j \in CommaPositions(s) : j < i}) = n - 2
TokenEnd(s, n) ==
  IF n = Cardinality(CommaPositions(s)) + 1 THEN Len(s)
  ELSE (CHOOSE i \in CommaPositions(s) :
          Cardinality({j \in CommaPositions(s) : j < i}) = n - 1) - 1
Tokens(s) ==
  [n \in 1..(Cardinality(CommaPositions(s)) + 1) |->
     SubSeq(s, TokenStart(s, n), TokenEnd(s, n))]

\* kws is the trimmed non-empty tokens of s, in order
IsKeywordsOf(kws, s) ==
  LET toks == Tokens(s)
      kept == {n \in 1..Len(toks) :
                 \E c \in 1..Len(toks[n]) : toks[n][c] \notin WhiteSpace}
  IN /\ Len(kws) = Cardinality(kept)
     /\ \A n \in kept :
          IsTrimOf(kws[Cardinality({m \in kept : m <= n})], toks[n])

\* C5: the posted body is derived by the stated rules: brief is the trimmed
\* topic when that is non-empty and the trimmed context otherwise; keywords
\* are the trimmed non-empty comma-separated tokens in order; avoid is the
\* trimmed brandDont alone when that is non-empty and empty otherwise; style
\* is always medium, hashtags on, emoji level 0.
C5_RequestBodyDerivation ==
  \A i \in 1..Len(fetchLog) :
    LET body == fetchLog[i].body IN
    /\ IF ~IsBlank(apiIn, "topic")
         THEN IsTrimOf(body.brief, apiIn["topic"])
         ELSE IsTrimOf(body.brief, apiIn["context"])
    /\ body.brief # <<>>
    /\ IsKeywordsOf(body.brand.voice.keywords, LabelOf(apiIn, "keywords"))
    /\ IF IsBlank(apiIn, "brandDont")
         THEN body.brand.voice.avoid = <<>>
         ELSE /\ Len(body.brand.voice.avoid) = 1
              /\ IsTrimOf(body.brand.voice.avoid[1], apiIn["brandDont"])
    /\ body.style.length = "medium"
    /\ body.style.include_hashtags = TRUE
    /\ body.style.emoji_level = 0

\* C5 witness: the example record was posted with keywords [one, two] and
\* avoid [Avoid emojis.]
C5_Witness ==
  /\ Len(fetchLog) = 1
  /\ apiIn = ExampleSettings
  /\ fetchLog[1].body.brief = <<"T","o","p","i","c"," ","h","e","r","e">>
  /\ fetchLog[1].body.brand.voice.keywords = << <<"o","n","e">>, <<"t","w","o">> >>
  /\ fetchLog[1].body.brand.voice.avoid =
       << <<"A","v","o","i","d"," ","e","m","o","j","i","s",".">> >>

\* C17: when a 2xx response body is not parseable JSON, or lacks a string
\* prompt, generatePrompt rejects with an HTTP error whose status is the
\* response status and whose bodyText is the raw text of the response body.
C17_MalformedBodyCarriesRawText ==
  (/\ apiPc = "done"
   /\ apiRes.kind = "response"
   /\ apiRes.status \in 200..299
   /\ apiRes.readable
   /\ \/ ~IsJson(apiRes.text)
      \/ JsonIsNull(apiRes.text)
      \/ "prompt" \notin DOMAIN JsonMembers(apiRes.text)
      \/ JsonMembers(apiRes.text)["prompt"].t # "string")
    => /\ apiOut.kind = "threw"
       /\ DOMAIN apiOut.error = {"message", "status", "bodyText"}
       /\ apiOut.error.status = apiRes.status
       /\ apiOut.error.bodyText = apiRes.text

\* The records that differ from rec at most in objective, brandVoice and
\* backendBaseUrl, over the values enumerated
UnsentVariants(rec) ==
  { WithField(WithField(WithField(rec, "objective", o), "brandVoice", v),
              "backendBaseUrl", u) :
      o \in Opt({<<"Awareness">>, <<"Conversion">>}),
      v \in Opt({<<"Clear">>, <<"Bold">>}),
      u \in Opt({<<"http://x:3001">>, <<" ">>}) }

\* C20: the posted body does not depend on objective, brandVoice or
\* backendBaseUrl: once a request is posted, every record that differs from
\* the settings posted only in these fields gives the same body, and the
\* tone is always professional.
C20_BodyIgnoresUnsentFields ==
  /\ \A i \in 1..Len(fetchLog) :
       fetchLog[i].body.brand.voice.tone = "professional"
  /\ apiPc = "awaiting" =>
       \A other \in UnsentVariants(apiIn) :
         /\ ValidationError(other) = NoError
         /\ GenerateRequest(apiBase, other).body = fetchLog[Len(fetchLog)].body

\* A record with objective, brandVoice and backendBaseUrl set was posted with
\* the body of the record without them
C20_Witness ==
  /\ apiPc = "awaiting"
  /\ Len(fetchLog) = 1
  /\ {"objective", "brandVoice", "backendBaseUrl"} \subseteq DOMAIN apiIn
  /\ apiIn["brandVoice"] = <<"Clear">>
  /\ apiIn["objective"] = <<"Awareness">>
  /\ fetchLog[1].body = RequestBody(BaseSettings)
  /\ fetchLog[1].body.brand.voice.tone = "professional"

(***************************************************************************)
(* Properties of resolveBaseUrl (checked under SpecUrl).                   *)
(***************************************************************************)
\* C12: for settings whose backendBaseUrl is non-empty after trimming,
\* resolveBaseUrl returns that value trimmed and without its trailing
\* slashes, however many there are; the returned URL never ends with "/".
C12_BaseUrlTrimmedAndStripped ==
  urlOut.kind = "returned" =>
    LET out == urlOut.value IN
    /\ out = <<>> \/ out[Len(out)] # "/"
    /\ ~IsBlank(urlIn.rec, "backendBaseUrl") =>
         \E n \in 0..MaxUrlLen :
           /\ IsTrimOf(out \o [i \in 1..n |-> "/"], urlIn.rec["backendBaseUrl"])

\* " h// " was resolved to "h"
C12_Witness ==
  /\ urlOut.kind = "returned"
  /\ urlIn.rec = [backendBaseUrl |-> <<" ", "h", "/", "/">>]
  /\ urlOut.value = <<"h">>

(***************************************************************************)
(* Properties of the settings store (checked under SpecStore).             *)
(***************************************************************************)
\* C2: saveSettings(s) followed by loadSettings() returns a record equal to
\* s, when the same single backend is active at both calls: the extension
\* API present and working, or absent with localStorage in use.
C2_SaveLoadRoundTrip ==
  (/\ storeOp.op = "load"
   /\ lastSaved # NoOp
   /\ lastSaved.backend \in {"chrome", "local"}
   /\ storeOp.backend = lastSaved.backend) =>
    /\ DOMAIN storeOp.value = DOMAIN lastSaved.arg
    /\ \A k \in DOMAIN lastSaved.arg : storeOp.value[k] = lastSaved.arg[k]

\* C2 witness: a record holding quotes, backslashes and a newline was saved
\* to localStorage and loaded back from it
C2_Witness ==
  /\ storeOp.op = "load"
  /\ lastSaved # NoOp
  /\ lastSaved.backend = "local" /\ storeOp.backend = "local"
  /\ lastSaved.arg = QuotedRecord
  /\ storeOp.value = QuotedRecord

\* C10: loadSettings and saveSettings never raise to the caller, whatever
\* the extension API (absent, failing, working) and localStorage (failing,
\* empty, corrupt, working) do; loadSettings returns the empty record when
\* both backends fail or the backend it reads holds no value.
C10_StoreNeverRaises ==
  /\ storeOp.op \in {"load", "save"} => storeOp.raised = FALSE
  /\ storeOp.op = "load" =>
       /\ (chromeMode # "working" /\ localMode = "failing") =>
            storeOp.value = EmptyRecord
       /\ (chromeMode # "working" /\ localStore \subseteq {CorruptText}) =>
            storeOp.value = EmptyRecord
       /\ (chromeMode = "working" /\ chromeStore = {}) =>
            storeOp.value = EmptyRecord

\* C10 witness: loadSettings has returned the empty record with the
\* extension API failing and localStorage throwing
C10_Witness ==
  /\ storeOp.op = "load"
  /\ chromeMode = "failing" /\ localMode = "failing"
  /\ localStore # {}
  /\ storeOp.raised = FALSE
  /\ storeOp.value = EmptyRecord

\* C11: loadSettings and saveSettings try the extension storage API first
\* whenever it is present; when it is present and its call succeeds, the
\* call neither reads nor writes localStorage; localStorage is used only
\* when the extension API is absent or its call failed.
C11_ExtensionStorageFirst ==
  [][ storeOp'.op \in {"load", "save"} =>
        LET local == {"local.get", "local.set"}
            chrome == IF storeOp'.op = "load" THEN "chrome.get" ELSE "chrome.set" IN
        /\ chromeMode # "absent" => chrome \in storeOp'.touched
        /\ chromeMode = "working" =>
             /\ storeOp'.touched \cap local = {}
             /\ localStore' = localStore
        /\ storeOp'.touched \cap local # {} => chromeMode \in {"absent", "failing"}
        /\ chromeMode \in {"absent", "failing"} =>
             storeOp'.touched \cap local # {}
    ]_vars

\* A record was saved through the working extension API while localStorage
\* held another record, which is still there
C11_Witness ==
  /\ storeOp.op = "save"
  /\ chromeMode = "working"
  /\ localMode = "working"
  /\ storeOp.touched = {"chrome.set"}
  /\ storeOp.arg = AcmeRecord
  /\ chromeStore = {AcmeRecord}
  /\ localStore = {JsonStringify(QuotedRecord)}


(***************************************************************************)
(* Properties of the App (checked under Spec).                             *)
(***************************************************************************)
\* The response of the fetch call is a 2xx response whose body is a JSON
\* object with a string prompt
IsSuccessfulResponse(res) ==
  /\ res.kind = "response"
  /\ res.status \in 200..299
  /\ res.readable
  /\ IsJson(res.text)
  /\ ~JsonIsNull(res.text)
  /\ "prompt" \in DOMAIN JsonMembers(res.text)
  /\ JsonMembers(res.text)["prompt"].t = "string"

StartsWith(s, prefix) ==
  /\ Len(prefix) <= Len(s)
  /\ SubSeq(s, 1, Len(prefix)) = prefix

EndsWith(s, suffix) ==
  /\ Len(suffix) <= Len(s)
  /\ SubSeq(s, Len(s) - Len(suffix) + 1, Len(s)) = suffix

\* C6: once onGenerate has resumed from a request that succeeded, the
\* generation state is "ok", the active view is results whatever view was
\* active when the response arrived, the prompt is the prompt string of the
\* response body character for character, and the metadata is the body's
\* metadata member, null when the body has none.
C6_SuccessfulGenerateShowsPrompt ==
  (lastAction.type = "generateSettled" /\ IsSuccessfulResponse(lastAction.res))
    => LET body == JsonMembers(lastAction.res.text) IN
       /\ generation.state = "ok"
       /\ generation.prompt = body["prompt"].v
       /\ generation.metadata =
            IF "metadata" \in DOMAIN body THEN body["metadata"] ELSE JNull
       /\ generation.error = <<>>
       /\ activeTab = "results"

\* A prompt with leading and trailing white space and no metadata arrived
\* while the brand view was active
C6_Witness ==
  /\ lastAction.type = "generateSettled"
  /\ lastAction.tab = "brand"
  /\ lastAction.res.kind = "response"
  /\ lastAction.res.status = 200
  /\ lastAction.res.text = TextPromptOnly
  /\ generation.state = "ok"
  /\ generation.prompt = <<" ","L","i","n","e"," ","1","\n">>
  /\ generation.metadata = JNull
  /\ activeTab = "results"

\* C7: once onGenerate has resumed from a generatePrompt call that threw (a
\* validation error, an HTTP error or a network error), the generation state
\* is "err" (not "generating"), prompt and metadata are cleared, the stored
\* message is the error's message followed by its body text when it carries a
\* non-empty one and the message alone otherwise, and the active view is
\* results.
C7_FailedGenerateShowsError ==
  (lastAction.type = "generateSettled" /\ lastAction.out.kind = "threw")
    => LET e == lastAction.out.error IN
       /\ generation.state = "err"
       /\ generation.prompt = <<>>
       /\ generation.metadata = JNull
       /\ IF "bodyText" \in DOMAIN e /\ e.bodyText # <<>>
            THEN /\ StartsWith(generation.error, e.message)
                 /\ EndsWith(generation.error, e.bodyText)
                 /\ Len(generation.error) >= Len(e.message) + Len(e.bodyText)
            ELSE generation.error = e.message
       /\ activeTab = "results"
       /\ \/ lastAction.res.kind = "none" /\ "status" \notin DOMAIN e
          \/ lastAction.res.kind = "network" /\ e.message = lastAction.res.message
          \/ lastAction.res.kind = "response" /\ e.status = lastAction.res.status

\* A 500 response with a plain-text body arrived while the prompt view was
\* active
C7_Witness ==
  /\ lastAction.type = "generateSettled"
  /\ lastAction.tab = "prompt"
  /\ lastAction.res.kind = "response"
  /\ lastAction.res.status = 500
  /\ generation.state = "err"
  /\ generation.prompt = <<>>
  /\ generation.metadata = JNull
  /\ generation.error =
       <<"Generate failed (", "500", ")", "\n", "\n", "server", " ", "down">>
  /\ activeTab = "results"

\* C8: an edit of one editable field sets that field of the in-memory
\* settings to the entered value, leaves every other field as it was and
\* turns the unsaved indicator on, for every editable field; onSave resuming
\* after saveSettings turns the indicator off.
C8_EditSetsFieldAndDirty ==
  [][ /\ lastAction'.type = "edit" =>
           /\ lastAction'.field \in EditableFields
           /\ DOMAIN settings' = DOMAIN settings
           /\ settings'[lastAction'.field] = lastAction'.value
           /\ \A j \in DOMAIN settings \ {lastAction'.field} :
                settings'[j] = settings[j]
           /\ dirty'
      /\ lastAction'.type = "saveSettled" => ~dirty'
    ]_vars

\* The topic was edited and the edit saved: the save has completed
C8_Witness ==
  /\ lastAction.type = "saveSettled"
  /\ ~dirty
  /\ settings["topic"] = <<"H","i">>
  /\ lastSaved.op = "save"
  /\ lastSaved.arg["topic"] = <<"H","i">>
  /\ savesInFlight = 0

\* C9: once the load effect has resumed in the mounted popup, the in-memory
\* settings have every key of the persisted record with its persisted value
\* and every default field absent from the record with its default value, and
\* nothing else; the unsaved indicator is off.
C9_LoadMergesOverDefaults ==
  (lastAction.type = "loadSettled" /\ lastAction.mounted)
    => LET stored == lastAction.stored IN
       /\ DOMAIN settings = DOMAIN DEFAULT_SETTINGS \cup DOMAIN stored
       /\ \A k \in DOMAIN stored : settings[k] = stored[k]
       /\ \A k \in DOMAIN DEFAULT_SETTINGS \ DOMAIN stored :
            settings[k] = DEFAULT_SETTINGS[k]
       /\ ~dirty

\* The persisted record {brandName: "Stored Brand", topic: "Stored Topic"}
\* was loaded from chrome.storage.local
C9_Witness ==
  /\ lastAction.type = "loadSettled"
  /\ lastAction.mounted
  /\ chromeStore = {StoredBrand}
  /\ lastAction.stored = StoredBrand
  /\ settings["brandName"] = <<"S","t","o","r","e","d"," ","B","r","a","n","d">>
  /\ settings["orientation"] = DEFAULT_SETTINGS["orientation"]
  /\ settings["backendBaseUrl"] = DEFAULT_SETTINGS["backendBaseUrl"]
  /\ ~dirty

\* C13: the stored record changes only in the step of a Save click, which
\* stores the in-memory settings of that moment (in the extension storage
\* when its call succeeds, as JSON text in localStorage otherwise, nowhere
\* when both fail); no step removes a stored record.
C13_StoreWrittenOnlyBySave ==
  [][ /\ (chromeStore' # chromeStore \/ localStore' # localStore)
           => lastAction'.type = "saveClicked"
      /\ lastAction'.type = "saveClicked" =>
           /\ settings' = settings
           /\ chromeStore' =
                IF chromeMode = "working" THEN {settings} ELSE chromeStore
           /\ localStore' =
                IF chromeMode # "working" /\ localMode = "working"
                  THEN {JsonStringify(settings)} ELSE localStore
      /\ chromeStore # {} => chromeStore' # {}
      /\ localStore # {} => localStore' # {}
    ]_vars

\* The topic was edited after the stored brand was loaded, and Save has
\* just written both to the extension storage
C13_Witness ==
  /\ lastAction.type = "saveClicked"
  /\ chromeMode = "working"
  /\ settings["topic"] = <<"H","i">>
  /\ settings["brandName"] = StoredBrand["brandName"]
  /\ chromeStore = {settings}
  /\ localStore = {}

\* The fetch of a prefetch step failed: a network error, a non-2xx response
\* or a body that is not JSON
IsFailedFetch(res) ==
  \/ res.kind = "network"
  \/ res.kind = "response" /\ (res.status \notin 200..299 \/ ~IsJson(res.text))

IsEmptyText(s) == s = <<>>
IsBlankText(s) == \A i \in 1..Len(s) : s[i] \in WhiteSpace

\* What a prefetch step may do to the settings: the brand name is replaced
\* only when empty, or (withBlank) when empty or white space only
PrefillStep(withBlank) ==
  /\ lastAction'.type = "configSettled" => settings' = settings
  /\ lastAction'.type = "defaultsSettled" =>
       /\ DOMAIN settings' = DOMAIN settings
       /\ \A k \in DOMAIN settings \ {"brandName"} : settings'[k] = settings[k]
       /\ settings'["brandName"] # settings["brandName"] =>
            /\ IF withBlank THEN IsBlankText(settings["brandName"])
                            ELSE IsEmptyText(settings["brandName"])
            /\ ~IsFailedFetch(lastAction'.res)
            /\ settings'["brandName"] = DefaultBrandName(lastAction'.res.text)
            /\ settings'["brandName"] # <<>>
       /\ IsFailedFetch(lastAction'.res) => settings' = settings

C15_InFlightResultsDiscarded ==
  [][ (/\ ~alive
       /\ lastAction'.type \in {"loadSettled", "configSettled", "defaultsSettled",
                                "saveSettled", "checkSettled", "generateSettled"})
        => UNCHANGED <<activeTab, settings, dirty, apiStatus, generation,
                       publicConfig>>
    ]_vars

\* The record last persisted, as a startup load would see it: what the store
\* holds, merged over the defaults
LastPersisted ==
  Spread(DEFAULT_SETTINGS,
         loadSettings(chromeMode, chromeStore, localMode, localStore).value)

\* C16: in every state of the mounted popup, with the startup load done and
\* no Save in flight, in which the in-memory settings differ from the record
\* last persisted, the unsaved indicator is on.
C16_DirtyWhenSettingsDiffer ==
  (/\ alive
   /\ loadTask.pc = "done"
   /\ savesInFlight = 0
   /\ settings # LastPersisted)
    => dirty

\* The text holds the chunk c
HasChunk(text, c) == \E i \in 1..Len(text) : text[i] = c

\* C18: when onCheckBackend resumes, the badge is Connected and the message
\* holds the status code for a 2xx response, the badge is Disconnected and
\* the message holds the status code for any other response, and the badge
\* is Disconnected and the message ends with the transport error's message
\* when the request failed; settings, unsaved indicator, generation state
\* and active view are as before.
C18_CheckBackendReportsStatus ==
  [][ lastAction'.type = "checkSettled" =>
        LET res == lastAction'.res IN
        /\ res.kind = "response" /\ res.status \in 200..299 =>
             /\ statusBadge(apiStatus') = "Connected"
             /\ HasChunk(apiStatus'.message, ToString(res.status))
        /\ res.kind = "response" /\ res.status \notin 200..299 =>
             /\ statusBadge(apiStatus') = "Disconnected"
             /\ HasChunk(apiStatus'.message, ToString(res.status))
        /\ res.kind = "network" =>
             /\ statusBadge(apiStatus') = "Disconnected"
             /\ EndsWith(apiStatus'.message, res.message)
        /\ UNCHANGED <<settings, dirty, generation, activeTab>>
    ]_vars

\* A health check made from the brand view was answered 500
C18_Witness ==
  /\ lastAction.type = "checkSettled"
  /\ lastAction.res.kind = "response"
  /\ lastAction.res.status = 500
  /\ apiStatus = [state |-> "err", message |-> <<"Backend error (", "500", ")">>]
  /\ activeTab = "brand"
  /\ checks = <<>>

\* C19: onCopyPrompt starts a clipboard write only when there is a prompt,
\* and then of exactly the prompt shown; when the write completes, a success
\* puts that text on the clipboard and a failure leaves the clipboard as it
\* was, and either way only the status changes: generation state, prompt,
\* metadata, active view, settings and unsaved indicator are as before.
C19_CopyOnlyTouchesStatus ==
  [][ /\ copies' # copies =>
           lastAction'.type \in {"copyClicked", "copySettled"}
      /\ lastAction'.type = "copyClicked" =>
           /\ generation.prompt # <<>>
           /\ copies' = Append(copies, generation.prompt)
           /\ UNCHANGED <<generation, activeTab, settings, dirty, clipboard,
                          apiStatus>>
      /\ lastAction'.type = "copySettled" =>
           /\ copies # <<>>
           /\ clipboard' = IF lastAction'.ok THEN Head(copies) ELSE clipboard
           /\ apiStatus'.state = IF lastAction'.ok THEN "ok" ELSE "err"
           /\ UNCHANGED <<generation, activeTab, settings, dirty>>
      /\ clipboard' # clipboard => lastAction'.type = "copySettled"
    ]_vars

\* The prompt " Line 1\n" was copied: the clipboard holds it character for
\* character and the generation is still the successful one
C19_Witness ==
  /\ lastAction = [type |-> "copySettled", ok |-> TRUE]
  /\ clipboard = <<" ","L","i","n","e"," ","1","\n">>
  /\ generation.state = "ok"
  /\ generation.prompt = clipboard
  /\ activeTab = "results"
  /\ apiStatus.message = <<"Copied prompt to clipboard.">>

\* The field k holds a value the user entered while the startup load was
\* still awaiting loadSettings (before the load, only an edit and the
\* brand-name prefill change the settings)
EditedBeforeLoad(k) ==
  /\ loadTask.pc = "awaiting"
  /\ IF k = "brandName"
       THEN lastAction.type = "edit" /\ lastAction.field = k
       ELSE settings[k] # DEFAULT_SETTINGS[k]

\* C21: when the startup load resumes in the mounted popup, every field the
\* user edited before that moment still holds the edited value, and the
\* unsaved indicator, on because of the edit, is still on.
C21_LoadKeepsEarlierEdits ==
  [][ (lastAction'.type = "loadSettled" /\ alive) =>
        /\ \A k \in EditableFields :
             EditedBeforeLoad(k) => settings'[k] = settings[k]
        /\ dirty => dirty'
    ]_vars

\* C22: at most one onGenerate call awaits generatePrompt, and one does
\* exactly while the generation state is "generating", when every Generate
\* and Regenerate button is disabled; a Generate click starts a call only
\* with none outstanding, built from the base URL and the settings of that
\* moment; edits made while it is outstanding do not change it; and the
\* result shown is set by the resumption of that one call.
C22_OneGenerationOutstanding ==
  [][ /\ Len(genTasks') <= 1
      /\ (generation'.state = "generating") = (genTasks' # <<>>)
      /\ genTasks' # <<>> => GenerateDisabled(generation')
      /\ lastAction'.type = "generateClicked" =>
           /\ genTasks = <<>>
           /\ genTasks' = <<GenerateCall(settings)>>
           /\ settings' = settings
      /\ (genTasks' # genTasks \/ generation' # generation) =>
           lastAction'.type \in {"generateClicked", "generateSettled"}
      /\ lastAction'.type = "generateSettled" =>
           /\ Len(genTasks) = 1
           /\ genTasks' = <<>>
           /\ Head(genTasks).pc = "rejected" =>
                lastAction'.out = Threw(Head(genTasks).error)
           /\ generation' = GenerationAfter(lastAction'.out)
    ]_vars

\* Generate was clicked with brand name and topic filled in from the stored
\* record, then the topic was edited while the request was outstanding: the
\* request is still the one built from the stored topic
C22_Witness ==
  /\ lastAction.type = "edit"
  /\ lastAction.field = "topic"
  /\ settings["topic"] = <<"H","i">>
  /\ generation.state = "generating"
  /\ Len(genTasks) = 1
  /\ genTasks[1].pc = "awaiting"
  /\ genTasks[1].request.body.brief = StoredBrand["topic"]
  /\ genTasks[1] # GenerateCall(settings)

\* C23: the badge shown changes only in a step of onCheckBackend; it becomes
\* Connected only when a health check resumes with a 2xx response, and
\* Disconnected only when one resumes with another response or a network
\* failure.
C23_BadgeReflectsHealthChecksOnly ==
  [][ statusBadge(apiStatus') # statusBadge(apiStatus) =>
        /\ lastAction'.type \in {"checkClicked", "checkSettled"}
        /\ statusBadge(apiStatus') = "Connected" =>
             /\ lastAction'.type = "checkSettled"
             /\ lastAction'.res.kind = "response"
             /\ lastAction'.res.status \in 200..299
        /\ statusBadge(apiStatus') = "Disconnected" =>
             /\ lastAction'.type = "checkSettled"
             /\ \/ lastAction'.res.kind = "network"
                \/ /\ lastAction'.res.kind = "response"
                   /\ lastAction'.res.status \notin 200..299
    ]_vars

\* The step before settled the most recently triggered health check: it was
\* the last of the outstanding calls, and no check was triggered since
LatestCheckJustSettled ==
  /\ lastAction.type = "checkSettled"
  /\ lastAction.index > Len(checks)

\* C24: once the most recently triggered health check has resumed and set
\* the status, the resumption of a check triggered earlier, whose response
\* arrives later, leaves the status shown as it is; so with all responses
\* in, the status is that of the most recently triggered check.
C24_LatestCheckWins ==
  [][ (LatestCheckJustSettled /\ lastAction'.type = "checkSettled")
        => apiStatus' = apiStatus
    ]_vars

(***************************************************************************)
(* The App with the one assumption that the generatePrompt call of an      *)
(* onGenerate eventually settles: fetch resolves or rejects (a validation  *)
(* error rejects the call without a fetch), and the handler then resumes.  *)
(* Nothing else is assumed to happen: no load, no prefetch, no user action.*)
(***************************************************************************)
FairSpec == Init /\ [][Next]_vars /\ WF_vars(GenerateSettled)

\* C25: a generation state of "generating" leads to "ok" or "err", with the
\* Generate buttons enabled again; a generation state that is not idle is
\* never followed by idle; and a non-empty prompt is held only in state "ok".
C25_GenerateEventuallySettles ==
  /\ (generation.state = "generating")
       ~> (generation.state \in {"ok", "err"} /\ ~GenerateDisabled(generation))
  /\ [][generation.state # "idle" => generation'.state # "idle"]_vars
  /\ [](generation.prompt # <<>> => generation.state = "ok")

\* A generation that was in progress has ended in failure, with no prompt
\* held, after the popup was closed
C25_Witness ==
  /\ lastAction.type = "generateSettled"
  /\ lastAction.res.kind = "network"
  /\ ~alive
  /\ generation.state = "err"
  /\ generation.prompt = <<>>
  /\ genTasks = <<>>

(***************************************************************************)
(* Save failover (checked under SpecStore).                                *)
(***************************************************************************)
\* The last saveSettings call wrote its record to a backend that answers at
\* this moment, and the extension API is present now as it was at that call
\* (or absent as it was)
SavedRecordAvailable ==
  /\ lastSaved # NoOp
  /\ \/ lastSaved.wrote = "chrome" /\ chromeMode = "working"
     \/ lastSaved.wrote = "local" /\ localMode = "working"
  /\ (lastSaved.backend = "local") = ~HasChromeStorage(chromeMode)

\* C26: a loadSettings call that follows a saveSettings call which wrote
\* its record to a backend (the extension storage, or localStorage as the
\* fallback after the extension API's set failed), with no other save in
\* between and with that backend answering, returns that record.
C26_SavedRecordFoundAgain ==
  (storeOp.op = "load" /\ SavedRecordAvailable) =>
    /\ DOMAIN storeOp.value = DOMAIN lastSaved.arg
    /\ \A k \in DOMAIN lastSaved.arg : storeOp.value[k] = lastSaved.arg[k]

=============================================================================
